---- MODULE Spec2Model ----
(***************************************************************************)
(* Model of the POST /generate handler of the UI generator backend.        *)
(*                                                                         *)
(* The repository holds two versions of the server: src/index.js and       *)
(* src/unnamed/part_001.  A server process runs one of them; `impl` says   *)
(* which.  Each request is one run of the async handler: it runs           *)
(* synchronously up to its next `await model.generateContent(...)` and is  *)
(* resumed when that call returns or throws.                               *)
(*                                                                         *)
(* Text is a sequence of tokens (strings).  JSON text is tokenised into    *)
(* punctuation, whitespace, the quote character, atoms and words, and      *)
(* JSON.parse / JSON.stringify are computed on those tokens.               *)
(***************************************************************************)
EXTENDS Integers, Sequences, FiniteSets, TLC

(***************************************************************************)
(* Bounds                                                                  *)
(***************************************************************************)
NumRequests == 2

Requests == 1..NumRequests

(***************************************************************************)
(* Text helpers                                                            *)
(***************************************************************************)
NL == "\n"
SP == " "
QUOTE == "\""

Whitespace == {SP, NL}

\* the tokens JSON.parse accepts as a literal outside a string
JSONAtoms == {"null", "true", "false", "0", "1"}

RECURSIVE Flatten(_)
Flatten(parts) ==
  IF parts = <<>> THEN <<>> ELSE Head(parts) \o Flatten(Tail(parts))

\* text is a contiguous part of whole
Contains(whole, text) ==
  \E i \in 0..(Len(whole) - Len(text)) :
     SubSeq(whole, i + 1, i + Len(text)) = text

RECURSIVE SkipWS(_)
SkipWS(ts) ==
  IF ts # <<>> /\ Head(ts) \in Whitespace THEN SkipWS(Tail(ts)) ELSE ts

RECURSIVE DropTrailingWS(_)
DropTrailingWS(ts) ==
  IF ts # <<>> /\ ts[Len(ts)] \in Whitespace
  THEN DropTrailingWS(SubSeq(ts, 1, Len(ts) - 1))
  ELSE ts

\* String.prototype.trim
Trim(ts) == DropTrailingWS(SkipWS(ts))

\* Array.prototype.join on an array of one-token strings
RECURSIVE Join(_, _)
Join(names, sep) ==
  IF names = <<>> THEN <<>>
  ELSE IF Len(names) = 1 THEN <<names[1]>>
  ELSE <<names[1], sep>> \o Join(Tail(names), sep)

(***************************************************************************)
(* JavaScript values of the request body: undefined, null or a string.     *)
(***************************************************************************)
Undefined == [t |-> "undefined", s |-> <<>>]
Null == [t |-> "null", s |-> <<>>]
String(ts) == [t |-> "string", s |-> ts]

\* ToBoolean: undefined, null and "" are falsy
Truthy(v) == v.t = "string" /\ v.s # <<>>

\* `${v || dflt}` of a template literal
OrDefault(v, dflt) == IF Truthy(v) THEN v.s ELSE dflt

(***************************************************************************)
(* JSON values: nodes [t, s, c].                                           *)
(*   atom    s = <<token>>                                                 *)
(*   string  s = the tokens between the quotes                             *)
(*   array   c = the elements                                              *)
(*   object  c = the members, in insertion order                           *)
(*   member  s = the key, c = <<value>>                                    *)
(***************************************************************************)
Atom(a) == [t |-> "atom", s |-> <<a>>, c |-> <<>>]
Str(ts) == [t |-> "string", s |-> ts, c |-> <<>>]
Arr(items) == [t |-> "array", s |-> <<>>, c |-> items]
Obj(members) == [t |-> "object", s |-> <<>>, c |-> members]
Member(key, val) == [t |-> "member", s |-> key, c |-> <<val>>]

NoValue == [t |-> "none", s |-> <<>>, c |-> <<>>]

HasField(obj, key) ==
  obj.t = "object" /\ \E i \in 1..Len(obj.c) : obj.c[i].s = key

Field(obj, key) ==
  IF HasField(obj, key)
  THEN (obj.c[CHOOSE i \in 1..Len(obj.c) : obj.c[i].s = key]).c[1]
  ELSE NoValue

\* obj[key] = val: a repeated key keeps its place and takes the new value
SetMember(members, key, val) ==
  IF \E i \in 1..Len(members) : members[i].s = key
  THEN [i \in 1..Len(members) |->
          IF members[i].s = key THEN Member(key, val) ELSE members[i]]
  ELSE Append(members, Member(key, val))

(***************************************************************************)
(* JSON.parse on tokens.  A parse step yields [ok, v, rest].  String       *)
(* escapes are not tokenised: a string ends at the next quote token, and   *)
(* a raw line break inside a string is a syntax error.                     *)
(***************************************************************************)
ParseFail == [ok |-> FALSE, v |-> NoValue, rest |-> <<>>]
ParseOk(val, rest) == [ok |-> TRUE, v |-> val, rest |-> rest]

\* ts starts right after the opening quote
ParseString(ts) ==
  IF \E i \in 1..Len(ts) : ts[i] = QUOTE
  THEN LET close == CHOOSE i \in 1..Len(ts) :
                      ts[i] = QUOTE /\ \A j \in 1..(i - 1) : ts[j] # QUOTE
           body == SubSeq(ts, 1, close - 1)
       IN  IF \E j \in 1..Len(body) : body[j] = NL
           THEN ParseFail
           ELSE ParseOk(Str(body), SubSeq(ts, close + 1, Len(ts)))
  ELSE ParseFail

RECURSIVE ParseValue(_)
RECURSIVE ParseMembers(_, _)
RECURSIVE ParseElements(_, _)

ParseValue(ts) ==
  LET u == SkipWS(ts) IN
  IF u = <<>> THEN ParseFail
  ELSE IF Head(u) = "{" THEN
         LET w == SkipWS(Tail(u)) IN
         IF w # <<>> /\ Head(w) = "}" THEN ParseOk(Obj(<<>>), Tail(w))
         ELSE ParseMembers(w, <<>>)
  ELSE IF Head(u) = "[" THEN
         LET w == SkipWS(Tail(u)) IN
         IF w # <<>> /\ Head(w) = "]" THEN ParseOk(Arr(<<>>), Tail(w))
         ELSE ParseElements(w, <<>>)
  ELSE IF Head(u) = QUOTE THEN ParseString(Tail(u))
  ELSE IF Head(u) \in JSONAtoms THEN ParseOk(Atom(Head(u)), Tail(u))
  ELSE ParseFail

\* ts starts at a member's key; acc holds the members read so far
ParseMembers(ts, acc) ==
  LET u == SkipWS(ts) IN
  IF u = <<>> \/ Head(u) # QUOTE THEN ParseFail
  ELSE LET k == ParseString(Tail(u))
           colon == SkipWS(k.rest)
       IN  IF ~k.ok \/ colon = <<>> \/ Head(colon) # ":" THEN ParseFail
           ELSE LET val == ParseValue(Tail(colon))
                    w == SkipWS(val.rest)
                    members == SetMember(acc, k.v.s, val.v)
                IN  IF ~val.ok \/ w = <<>> THEN ParseFail
                    ELSE IF Head(w) = "," THEN ParseMembers(Tail(w), members)
                    ELSE IF Head(w) = "}" THEN ParseOk(Obj(members), Tail(w))
                    ELSE ParseFail

\* ts starts at an element; acc holds the elements read so far
ParseElements(ts, acc) ==
  LET val == ParseValue(ts)
      w == SkipWS(val.rest)
  IN  IF ~val.ok \/ w = <<>> THEN ParseFail
      ELSE IF Head(w) = "," THEN ParseElements(Tail(w), Append(acc, val.v))
      ELSE IF Head(w) = "]" THEN ParseOk(Arr(Append(acc, val.v)), Tail(w))
      ELSE ParseFail

\* JSON.parse(text): ok = FALSE stands for the SyntaxError it throws
JSONparse(text) ==
  LET r == ParseValue(text) IN
  IF r.ok /\ SkipWS(r.rest) = <<>> THEN ParseOk(r.v, <<>>) ELSE ParseFail

(***************************************************************************)
(* JSON.stringify(value, null, 2)                                          *)
(***************************************************************************)
IndentWidth == 2

RECURSIVE Spaces(_)
Spaces(n) == IF n = 0 THEN <<>> ELSE <<SP>> \o Spaces(n - 1)

RECURSIVE Stringify(_, _)
RECURSIVE StringifyItems(_, _, _)

\* the items of an array or object at nesting depth d, one per line
StringifyItems(items, d, i) ==
  IF i > Len(items) THEN <<>>
  ELSE <<NL>> \o Spaces(IndentWidth * d)
       \o Stringify(items[i], d)
       \o (IF i < Len(items) THEN <<",">> ELSE <<>>)
       \o StringifyItems(items, d, i + 1)

Stringify(v, d) ==
  IF v.t = "atom" THEN v.s
  ELSE IF v.t = "string" THEN <<QUOTE>> \o v.s \o <<QUOTE>>
  ELSE IF v.t = "member"
       THEN <<QUOTE>> \o v.s \o <<QUOTE, ":", SP>> \o Stringify(v.c[1], d)
  ELSE IF v.t = "array" THEN
         IF v.c = <<>> THEN <<"[", "]">>
         ELSE <<"[">> \o StringifyItems(v.c, d + 1, 1)
              \o <<NL>> \o Spaces(IndentWidth * d) \o <<"]">>
  ELSE IF v.t = "object" THEN
         IF v.c = <<>> THEN <<"{", "}">>
         ELSE <<"{">> \o StringifyItems(v.c, d + 1, 1)
              \o <<NL>> \o Spaces(IndentWidth * d) \o <<"}">>
  ELSE <<>>

JSONstringify(v) == Stringify(v, 0)

(***************************************************************************)
(* Prompt templates.  Fixed template text is kept as whole-line tokens;    *)
(* the interpolated parts are the tokens of the values.                    *)
(***************************************************************************)
ALLOWED_COMPONENTS ==
  <<"Button", "Card", "Input", "Sidebar", "Navbar", "Modal", "Chart">>

PreviousUIHeader == "PREVIOUS UI:"
NoneMarker == "None"

\* src/index.js
plannerPrompt_index(message, previousCode) ==
  <<NL, "you are a UI planner.", NL, NL, "allowed components:">>
  \o Join(ALLOWED_COMPONENTS, ",")
  \o <<NL, NL, "user request: ", QUOTE>> \o message.s \o <<QUOTE>>
  \o <<NL, NL, "if previous UI exists:", NL>>
  \o OrDefault(previousCode, <<"no previous UI">>)
  \o <<NL, NL, "return structured JSON plan.", NL,
       "do not generate code.", NL>>

generatorPrompt_index(planText) ==
  <<NL, "you are a UI code generator.", NL, NL, "allowed components: ">>
  \o Join(ALLOWED_COMPONENTS, ",")
  \o <<NL, NL, "plan: ">> \o planText
  \o <<NL, NL, "rules:", NL, "- use only allowed components", NL,
       "- no inline styles", NL, "- no className", NL,
       "- return only JSX", NL>>

explainerPrompt_index(planText) ==
  <<NL, "explain in plan english why these components were selected.",
    NL, NL, "plan: ">> \o planText \o <<NL>>

\* src/unnamed/part_001
plannerPrompt_part001(message, previousCode) ==
  <<NL, "You are a deterministic UI planner.", NL, NL,
    "Your job is to analyze the user request and return a structured JSON plan.",
    NL, NL, "ALLOWED COMPONENTS AND REQUIRED PROPS ... 7) Chart",
    NL, NL, "PLANNING RULES ...",
    NL, NL, "OUTPUT FORMAT (STRICT JSON ONLY) ...",
    NL, NL, "USER REQUEST:", NL, QUOTE>> \o message.s \o <<QUOTE>>
  \o <<NL, NL, PreviousUIHeader, NL>>
  \o OrDefault(previousCode, <<NoneMarker>>)
  \o <<NL>>

generatorPrompt_part001(plan, previousCode) ==
  <<NL, "You are a deterministic React UI code generator.", NL, NL,
    "Your job is to convert a structured UI plan into valid JSX.",
    NL, NL, "ALLOWED COMPONENTS AND PROPS ... 7) Chart",
    NL, NL, "STRICT RULES (MUST FOLLOW) ...",
    NL, NL, "PLAN:", NL>> \o JSONstringify(plan)
  \o <<NL, NL, PreviousUIHeader, NL>>
  \o OrDefault(previousCode, <<NoneMarker>>)
  \o <<NL>>

explainerPrompt_part001(plan) ==
  <<NL, "explain in plan english why these components were selected.",
    NL, NL, "plan: ">> \o JSONstringify(plan) \o <<NL>>

(***************************************************************************)
(* The handler.  A frame is one run of the async callback of               *)
(* app.post('/generate'): its locals, its position, the calls it has made  *)
(* on the model client and the response object.  planText holds `planText` *)
(* of index.js and `raw` of part_001.  req.body is the object that         *)
(* express.json() parsed.  What console.log prints is not kept.            *)
(***************************************************************************)
Impls == {"index.js", "part_001"}

NoResponse == [sent |-> 0, status |-> 0, body |-> NoValue]

IdleFrame ==
  [pc |-> "idle",
   message |-> Undefined, previousCode |-> Undefined,
   planText |-> <<>>, plan |-> NoValue, code |-> <<>>,
   err |-> "none",
   calls |-> <<>>, replies |-> <<>>, inflight |-> 0,
   res |-> NoResponse]

\* res.status(status).json(body)
Send(f, status, body) ==
  [f EXCEPT !.pc = "done",
            !.res = [sent |-> @.sent + 1, status |-> status, body |-> body]]

\* await model.generateContent(prompt): the call is issued and the handler
\* is suspended at `site`
Call(f, site, prompt) ==
  [f EXCEPT !.pc = site,
            !.calls = Append(@, [site |-> site, prompt |-> prompt]),
            !.inflight = @ + 1]

\* the pending call settles: reply.ok = FALSE when it rejects or when
\* response.text() throws
Settle(f, reply) ==
  [f EXCEPT !.replies = Append(@, reply), !.inflight = @ - 1]

\* variant: a catch block that answers a malformed plan with its own status
Catch_typed(f, err) ==
  Send([f EXCEPT !.err = err], IF err = "SyntaxError" THEN 502 ELSE 500,
       Obj(<<Member(<<"message">>,
                    Str(<<IF err = "SyntaxError" THEN "Malformed plan"
                          ELSE "Internal server error">>))>>))

\* catch (err) { ... res.status(500).json({ message: "Internal server error" }) }
Catch(f, err) ==
  Send([f EXCEPT !.err = err], 500,
       Obj(<<Member(<<"message">>, Str(<<"Internal server error">>))>>))

\* variant: only an absent message is rejected (message === undefined)
Start_lax(i, f, message, previousCode) ==
  LET g == [f EXCEPT !.message = message, !.previousCode = previousCode] IN
  IF message = Undefined
  THEN Send(g, 400,
            Obj(<<Member(<<"message">>, Str(<<"Input message required">>))>>))
  ELSE IF i = "index.js"
       THEN Call(g, "planner", plannerPrompt_index(message, previousCode))
       ELSE Call(g, "planner", plannerPrompt_part001(message, previousCode))

\* variant: the 400 is sent without `return`, so the handler goes on
Start_noReturn(i, f, message, previousCode) ==
  LET g == [f EXCEPT !.message = message, !.previousCode = previousCode]
      h == IF ~Truthy(message)
           THEN Send(g, 400,
                     Obj(<<Member(<<"message">>,
                                  Str(<<"Input message required">>))>>))
           ELSE g
  IN  IF i = "index.js"
      THEN Call(h, "planner", plannerPrompt_index(message, previousCode))
      ELSE Call(h, "planner", plannerPrompt_part001(message, previousCode))

\* from the destructuring of req.body to the first await
Start(i, f, message, previousCode) ==
  LET g == [f EXCEPT !.message = message, !.previousCode = previousCode] IN
  IF ~Truthy(message)
  THEN Send(g, 400,
            Obj(<<Member(<<"message">>, Str(<<"Input message required">>))>>))
  ELSE IF i = "index.js"
       THEN Call(g, "planner", plannerPrompt_index(message, previousCode))
       ELSE Call(g, "planner", plannerPrompt_part001(message, previousCode))

\* variant: generator and explainer are started together, as Promise.all would
AfterPlanner_parallel(i, f, text) ==
  IF i = "index.js"
  THEN LET g == [f EXCEPT !.planText = text] IN
       Call(Call(g, "generator", generatorPrompt_index(text)),
            "explainer", explainerPrompt_index(text))
  ELSE LET raw == Trim(text)
           parsed == JSONparse(raw)
           g == [f EXCEPT !.planText = raw]
       IN  IF ~parsed.ok THEN Catch(g, "SyntaxError")
           ELSE Call(Call([g EXCEPT !.plan = parsed.v], "generator",
                          generatorPrompt_part001(parsed.v, f.previousCode)),
                     "explainer", explainerPrompt_part001(parsed.v))

\* from the planner's text to the second await
AfterPlanner(i, f, text) ==
  IF i = "index.js"
  THEN LET g == [f EXCEPT !.planText = text] IN
       Call(g, "generator", generatorPrompt_index(text))
  ELSE LET raw == Trim(text)
           parsed == JSONparse(raw)
           g == [f EXCEPT !.planText = raw]
       IN  IF ~parsed.ok THEN Catch(g, "SyntaxError")
           ELSE Call([g EXCEPT !.plan = parsed.v], "generator",
                     generatorPrompt_part001(parsed.v, f.previousCode))

\* from the generator's text to the third await
AfterGenerator(i, f, text) ==
  LET g == [f EXCEPT !.code = text] IN
  IF i = "index.js"
  THEN Call(g, "explainer", explainerPrompt_index(f.planText))
  ELSE Call(g, "explainer", explainerPrompt_part001(f.plan))

\* from the explainer's text to the response
AfterExplainer(i, f, text) ==
  IF i = "index.js"
  THEN Send(f, 200,
            Obj(<<Member(<<"code">>, Str(f.code)),
                  Member(<<"explanation">>, Str(text))>>))
  ELSE Send(f, 200,
            Obj(<<Member(<<"plan">>, f.plan),
                  Member(<<"code">>, Str(f.code)),
                  Member(<<"explanation">>, Str(text))>>))

(***************************************************************************)
(* Inputs: request bodies and the texts the model returns.                 *)
(***************************************************************************)
Lit(word) == <<QUOTE, word, QUOTE>>

\* {"name":name,"props":{k1:v1,...}} without whitespace
ComponentText(name, props) ==
  <<"{">> \o Lit("name") \o <<":">> \o Lit(name) \o <<",">>
  \o Lit("props") \o <<":", "{">>
  \o Flatten([i \in 1..Len(props) |->
                Lit(props[i][1]) \o <<":">> \o props[i][2]
                \o (IF i < Len(props) THEN <<",">> ELSE <<>>)])
  \o <<"}", "}">>

\* {"type":type,"components":[component]} without whitespace
PlanText(type, component) ==
  <<"{">> \o Lit("type") \o <<":">> \o Lit(type) \o <<",">>
  \o Lit("components") \o <<":", "[">> \o component \o <<"]", "}">>

ButtonText == ComponentText("Button", << <<"label", Lit("Go")>> >>)
CardText ==
  ComponentText("Card", << <<"title", Lit("Revenue")>>,
                           <<"content", Lit("$56,789")>>,
                           <<"description", Lit("Q1 earnings")>> >>)

\* a valid create plan, padded with whitespace
TextCreate == <<SP, NL>> \o PlanText("create", ButtonText) \o <<NL>>
\* a valid modify plan
TextModify == PlanText("modify", CardText)
\* not JSON at all
TextNotJson == <<"not", SP, "json">>
\* JSON, but the component is outside the vocabulary and its prop is empty
TextBadSchema ==
  PlanText("create", ComponentText("Table", << <<"title", <<QUOTE, QUOTE>> >> >>))

PlannerTexts ==
  {TextCreate, TextModify, TextNotJson, TextBadSchema}

JsxText == <<"<>", "<Button", SP, "label=", QUOTE, "Go", QUOTE, SP, "/>", "</>">>
ProseText == <<"A", SP, "Button", SP, "was", SP, "selected.">>

GeneratorTexts == {JsxText}
ExplainerTexts == {ProseText}

PreviousCodeText == <<"<>", "<Card", SP, "title=", QUOTE, "Old", QUOTE, SP, "/>", "</>">>

MessageText == <<"add", SP, "a", SP, "button">>

\* req.body: a key that is absent reads as undefined
Bodies ==
  {[message |-> Undefined, previousCode |-> Undefined],
   [message |-> Null, previousCode |-> Null],
   [message |-> String(<<>>), previousCode |-> String(PreviousCodeText)],
   [message |-> String(MessageText), previousCode |-> Undefined],
   [message |-> String(MessageText), previousCode |-> Null],
   [message |-> String(MessageText), previousCode |-> String(PreviousCodeText)]}

(***************************************************************************)
(* State                                                                   *)
(***************************************************************************)
VARIABLES impl, frame

vars == <<impl, frame>>

Init ==
  /\ impl \in Impls
  /\ frame = [r \in Requests |-> IdleFrame]

\* variant: the planner template also interpolates a module-level request
\* counter
Receive_counted(r, body) ==
  /\ frame[r].pc = "idle"
  /\ LET f == Start(impl, frame[r], body.message, body.previousCode)
         n == Cardinality({q \in Requests : frame[q].pc # "idle"})
     IN  frame' = [frame EXCEPT ![r] =
            IF f.calls = <<>> THEN f
            ELSE [f EXCEPT !.calls[1].prompt = @ \o <<"request", SP, ToString(n), NL>>]]
  /\ UNCHANGED impl

\* a request reaches the handler; it runs to its first await or responds
Receive(r, body) ==
  /\ frame[r].pc = "idle"
  /\ frame' = [frame EXCEPT ![r] =
        Start(impl, @, body.message, body.previousCode)]
  /\ UNCHANGED impl

\* variant: the plan is kept in a module-level variable, so the plan of r
\* replaces the plan of every request that is past its planner call
PlannerReturns_shared(r, text) ==
  /\ frame[r].pc = "planner"
  /\ LET mine == AfterPlanner(impl, Settle(frame[r], [ok |-> TRUE, text |-> text]), text)
     IN  frame' = [q \in Requests |->
                    IF q = r THEN mine
                    ELSE IF frame[q].pc \in {"generator", "explainer"}
                         THEN [frame[q] EXCEPT !.plan = mine.plan,
                                               !.planText = mine.planText]
                         ELSE frame[q]]
  /\ UNCHANGED impl

PlannerReturns(r, text) ==
  /\ frame[r].pc = "planner"
  /\ frame' = [frame EXCEPT ![r] =
        AfterPlanner(impl, Settle(@, [ok |-> TRUE, text |-> text]), text)]
  /\ UNCHANGED impl

GeneratorReturns(r, text) ==
  /\ frame[r].pc = "generator"
  /\ frame' = [frame EXCEPT ![r] =
        AfterGenerator(impl, Settle(@, [ok |-> TRUE, text |-> text]), text)]
  /\ UNCHANGED impl

ExplainerReturns(r, text) ==
  /\ frame[r].pc = "explainer"
  /\ frame' = [frame EXCEPT ![r] =
        AfterExplainer(impl, Settle(@, [ok |-> TRUE, text |-> text]), text)]
  /\ UNCHANGED impl

\* the pending call of r rejects, or its response.text() throws
ModelThrows(r) ==
  /\ frame[r].pc \in {"planner", "generator", "explainer"}
  /\ frame' = [frame EXCEPT ![r] =
        Catch(Settle(@, [ok |-> FALSE, text |-> <<>>]), "Error")]
  /\ UNCHANGED impl

Next ==
  \/ \E r \in Requests, b \in Bodies : Receive(r, b)
  \/ \E r \in Requests, t \in PlannerTexts : PlannerReturns(r, t)
  \/ \E r \in Requests, t \in GeneratorTexts : GeneratorReturns(r, t)
  \/ \E r \in Requests, t \in ExplainerTexts : ExplainerReturns(r, t)
  \/ \E r \in Requests : ModelThrows(r)

Spec == Init /\ [][Next]_vars

\* the pending model call of r returns or throws
ModelSettles(r) ==
  \/ \E t \in PlannerTexts : PlannerReturns(r, t)
  \/ \E t \in GeneratorTexts : GeneratorReturns(r, t)
  \/ \E t \in ExplainerTexts : ExplainerReturns(r, t)
  \/ ModelThrows(r)

\* every model call eventually returns or throws; the event loop then
\* resumes the handler that awaits it
FairSpec == Spec /\ \A r \in Requests : WF_vars(ModelSettles(r))

\* The same handler driven through each of its paths once: a rejected body
\* and an accepted one, a plan that parses and one that does not.
PathBodies ==
  {[message |-> String(<<>>), previousCode |-> String(PreviousCodeText)],
   [message |-> String(MessageText), previousCode |-> Null]}
PathPlannerTexts == {TextCreate, TextNotJson}

PathSettles(r) ==
  \/ \E t \in PathPlannerTexts : PlannerReturns(r, t)
  \/ \E t \in GeneratorTexts : GeneratorReturns(r, t)
  \/ \E t \in ExplainerTexts : ExplainerReturns(r, t)
  \/ ModelThrows(r)

PathNext ==
  \/ \E r \in Requests, b \in PathBodies : Receive(r, b)
  \/ \E r \in Requests, t \in PathPlannerTexts : PlannerReturns(r, t)
  \/ \E r \in Requests, t \in GeneratorTexts : GeneratorReturns(r, t)
  \/ \E r \in Requests, t \in ExplainerTexts : ExplainerReturns(r, t)
  \/ \E r \in Requests : ModelThrows(r)

FairPathSpec ==
  Init /\ [][PathNext]_vars /\ \A r \in Requests : WF_vars(PathSettles(r))

(***************************************************************************)
(* The plan schema the prompts state (part_001:39-93)                      *)
(***************************************************************************)
RequiredProps(name) ==
  CASE name = "Sidebar" -> {"header", "items"}
    [] name = "Card" -> {"title", "content", "description"}
    [] name = "Button" -> {"label"}
    [] name = "Input" -> {"placeholder"}
    [] OTHER -> {"title"}

AllowedNames == {ALLOWED_COMPONENTS[i] : i \in 1..Len(ALLOWED_COMPONENTS)}

NonEmpty(v) ==
  \/ v.t = "string" /\ v.s # <<>>
  \/ v.t = "array" /\ v.c # <<>>

ValidComponent(c) ==
  /\ c.t = "object"
  /\ Field(c, <<"name">>).t = "string"
  /\ Len(Field(c, <<"name">>).s) = 1
  /\ Field(c, <<"name">>).s[1] \in AllowedNames
  /\ Field(c, <<"props">>).t = "object"
  /\ \A p \in RequiredProps(Field(c, <<"name">>).s[1]) :
        NonEmpty(Field(Field(c, <<"props">>), <<p>>))

ValidPlan(v) ==
  /\ v.t = "object"
  /\ Field(v, <<"type">>) \in {Str(<<"create">>), Str(<<"modify">>)}
  /\ Field(v, <<"components">>).t = "array"
  /\ \A i \in 1..Len(Field(v, <<"components">>).c) :
        ValidComponent(Field(v, <<"components">>).c[i])

(***************************************************************************)
(* Vocabulary of the properties                                            *)
(***************************************************************************)
Sites(r) == [k \in 1..Len(frame[r].calls) |-> frame[r].calls[k].site]

Status(r) == frame[r].res.status
Body(r) == frame[r].res.body

\* the k-th call of r has returned a text
Returned(r, k) == Len(frame[r].replies) >= k /\ frame[r].replies[k].ok
\* the k-th call of r has thrown
Threw(r, k) == Len(frame[r].replies) >= k /\ ~frame[r].replies[k].ok

PlannerText(r) == frame[r].replies[1].text

\* JSON.parse of each text the planner can return
ParseOf == [t \in PlannerTexts |-> JSONparse(t)]

\* the planner has answered r with a text that is not JSON
PlanUnparseable(r) == Returned(r, 1) /\ ~ParseOf[PlannerText(r)].ok
\* the planner has answered r with a text that is JSON
PlanParseable(r) == Returned(r, 1) /\ ParseOf[PlannerText(r)].ok

ParsedPlan(r) == ParseOf[PlannerText(r)].v

BadRequestBody ==
  Obj(<<Member(<<"message">>, Str(<<"Input message required">>))>>)
ServerErrorBody ==
  Obj(<<Member(<<"message">>, Str(<<"Internal server error">>))>>)

ResultFields == {<<"plan">>, <<"code">>, <<"explanation">>}

(***************************************************************************)
(* C1: a request whose message is absent or empty is answered with 400     *)
(* and {"message": "Input message required"}, and the model client is      *)
(* never called for it.                                                    *)
(***************************************************************************)
C1_EmptyMessageRejected ==
  \A r \in Requests :
     frame[r].pc # "idle" /\ ~Truthy(frame[r].message)
     => /\ frame[r].pc = "done"
        /\ frame[r].res = [sent |-> 1, status |-> 400, body |-> BadRequestBody]
        /\ frame[r].calls = <<>>
        /\ frame[r].inflight = 0

\* one request without a message (or with null) and one with an empty
\* message were answered
C1_Witness ==
  \E r1, r2 \in Requests :
     /\ frame[r1].pc = "done" /\ frame[r1].message \in {Undefined, Null}
     /\ frame[r2].pc = "done" /\ frame[r2].message = String(<<>>)
     /\ Status(r1) = 400 /\ Status(r2) = 400

(***************************************************************************)
(* C2: when the planner returns a valid Plan JSON, the generator a text    *)
(* and the explainer a text, the response is 200 and its body has `plan`,  *)
(* `code` and `explanation`, taken from the first, second and third model  *)
(* output in that order.                                                   *)
(***************************************************************************)
ThreeOutputs(r) ==
  /\ Truthy(frame[r].message)
  /\ Returned(r, 1) /\ Returned(r, 2) /\ Returned(r, 3)
  /\ PlanParseable(r) /\ ValidPlan(ParsedPlan(r))

C2_SuccessBody ==
  \A r \in Requests :
     ThreeOutputs(r)
     => /\ Status(r) = 200
        /\ frame[r].res.sent = 1
        /\ Field(Body(r), <<"plan">>) = ParsedPlan(r)
        /\ Field(Body(r), <<"code">>) = Str(frame[r].replies[2].text)
        /\ Field(Body(r), <<"explanation">>) = Str(frame[r].replies[3].text)

\* the same statement for the server of part_001 alone
C2_SuccessBody_part001 == impl = "part_001" => C2_SuccessBody

C2_Witness_part001 ==
  \E r \in Requests :
     /\ impl = "part_001" /\ ThreeOutputs(r)
     /\ PlannerText(r) = TextCreate /\ PlannerText(r) # JSONstringify(ParsedPlan(r))

(***************************************************************************)
(* C3: when the planner returns text that is not JSON, the generator and   *)
(* the explainer are never called: the model client is called exactly once *)
(* for the request, and the request ends in an error response.             *)
(***************************************************************************)
C3_NoCallAfterBadPlan ==
  \A r \in Requests :
     PlanUnparseable(r)
     => /\ Len(frame[r].calls) = 1
        /\ frame[r].pc = "done"
        /\ Status(r) >= 400

C3_NoCallAfterBadPlan_part001 == impl = "part_001" => C3_NoCallAfterBadPlan

C3_Witness_part001 ==
  \E r \in Requests :
     /\ impl = "part_001"
     /\ PlanUnparseable(r) /\ PlannerText(r) = TextNotJson

(***************************************************************************)
(* C4: within one request the model client is called in the order          *)
(* planner, generator, explainer; a call is issued only after the one      *)
(* before it has returned, at most one call is in flight, no stage is      *)
(* called twice, and a request answered with 200 has made exactly three    *)
(* calls.                                                                  *)
(***************************************************************************)
StageOrder == <<"planner", "generator", "explainer">>

C4_SequentialCalls ==
  \A r \in Requests :
     /\ Len(frame[r].calls) <= Len(StageOrder)
     /\ Sites(r) = SubSeq(StageOrder, 1, Len(frame[r].calls))
     /\ frame[r].inflight \in {0, 1}
     /\ frame[r].inflight = Len(frame[r].calls) - Len(frame[r].replies)
     /\ \A k \in 1..(Len(frame[r].calls) - 1) : Returned(r, k)
     /\ Status(r) = 200
        => Len(frame[r].calls) = 3 /\ frame[r].inflight = 0

\* a request was answered with 200 while another is waiting for its
\* second call
C4_Witness ==
  \E r1, r2 \in Requests :
     /\ Status(r1) = 200 /\ Sites(r1) = StageOrder
     /\ frame[r2].pc = "generator" /\ frame[r2].inflight = 1

(***************************************************************************)
(* C5: a request never partially succeeds: when a model call throws at     *)
(* any stage or the plan does not parse, the response has none of `plan`,  *)
(* `code`, `explanation`; 200 is sent only after all three stages have     *)
(* completed, and nothing is sent before the handler ends.                 *)
(***************************************************************************)
StageFailed(r) == (\E k \in 1..3 : Threw(r, k)) \/ PlanUnparseable(r)

C5_NoPartialSuccess ==
  \A r \in Requests :
     /\ StageFailed(r)
        => \A fld \in ResultFields : ~HasField(Body(r), fld)
     /\ Status(r) = 200
        => Returned(r, 1) /\ Returned(r, 2) /\ Returned(r, 3)
     /\ frame[r].pc # "done" => frame[r].res = NoResponse

C5_NoPartialSuccess_part001 == impl = "part_001" => C5_NoPartialSuccess

\* the generator had produced code when the explainer threw; another
\* request failed on its plan
C5_Witness_part001 ==
  \E r1, r2 \in Requests :
     /\ impl = "part_001"
     /\ Returned(r1, 2) /\ Threw(r1, 3) /\ frame[r1].code = JsxText
     /\ PlanUnparseable(r2) /\ frame[r2].pc = "done"

(***************************************************************************)
(* C6: every failure after the message check (the model client throws at   *)
(* any stage, or the planner's output is malformed) is answered with 500   *)
(* and exactly {"message": "Internal server error"}.                       *)
(***************************************************************************)
C6_FlatServerError ==
  \A r \in Requests :
     StageFailed(r)
     => frame[r].res = [sent |-> 1, status |-> 500, body |-> ServerErrorBody]

C6_FlatServerError_part001 == impl = "part_001" => C6_FlatServerError

\* failures at each of the three stages and on the plan
C6_Witness_part001 ==
  /\ impl = "part_001"
  /\ \E r1, r2 \in Requests : Threw(r1, 1) /\ Threw(r2, 2)

(***************************************************************************)
(* C7: a planner output that is JSON but violates the plan schema (a       *)
(* component name outside the vocabulary, or a required prop missing or    *)
(* empty) is rejected: it is never embedded in a later prompt and never    *)
(* returned as `plan` with status 200.                                     *)
(***************************************************************************)
\* the prompt carries the plan of r, as the model wrote it or re-serialized
EmbedsPlan(prompt, r) ==
  \/ Contains(prompt, JSONstringify(ParsedPlan(r)))
  \/ Contains(prompt, Trim(PlannerText(r)))

C7_InvalidPlanRejected ==
  \A r \in Requests :
     PlanParseable(r) /\ ~ValidPlan(ParsedPlan(r))
     => /\ \A k \in 2..Len(frame[r].calls) :
              ~EmbedsPlan(frame[r].calls[k].prompt, r)
        /\ ~(Status(r) = 200 /\ Field(Body(r), <<"plan">>) = ParsedPlan(r))

(***************************************************************************)
(* C8: when JSON.parse rejects the planner's completion the handler        *)
(* yields an explicit error outcome that differs from the outcome of a     *)
(* model-client failure: the two causes never produce the same response.   *)
(***************************************************************************)
C8_DistinguishableError ==
  \A r1, r2 \in Requests :
     frame[r1].err = "SyntaxError"
     => /\ Status(r1) >= 400
        /\ frame[r2].err = "Error"
           => <<Status(r1), Body(r1)>> # <<Status(r2), Body(r2)>>

(***************************************************************************)
(* C8 as amended: when JSON.parse rejects the planner's completion the     *)
(* handler yields an explicit error outcome, 500 with                      *)
(* {"message": "Internal server error"}, and that is the very response a   *)
(* model-client failure produces.                                          *)
(***************************************************************************)
C8_SameErrorResponse ==
  \A r1, r2 \in Requests :
     /\ PlanUnparseable(r1) /\ impl = "part_001"
        => frame[r1].err = "SyntaxError"
     /\ frame[r1].err = "SyntaxError"
        => /\ frame[r1].pc = "done" /\ frame[r1].res.sent = 1
           /\ Status(r1) = 500 /\ Body(r1) = ServerErrorBody
           /\ frame[r2].err = "Error"
              => <<Status(r1), Body(r1)>> = <<Status(r2), Body(r2)>>

\* one request failed on its plan, the other on the model client
C8_Witness ==
  \E r1, r2 \in Requests :
     /\ frame[r1].err = "SyntaxError" /\ PlannerText(r1) = TextNotJson
     /\ frame[r2].err = "Error"

(***************************************************************************)
(* C9: for a request with a non-null previousCode whose plan has type      *)
(* `modify`, the generation prompt contains the previousCode text verbatim *)
(* together with the serialized plan.                                      *)
(***************************************************************************)
PlanType(r) == Field(ParsedPlan(r), <<"type">>)

C9_ModifyPromptHasPrevious ==
  \A r \in Requests :
     /\ frame[r].previousCode.t = "string"
     /\ PlanParseable(r) /\ PlanType(r) = Str(<<"modify">>)
     /\ Len(frame[r].calls) >= 2
     => /\ frame[r].calls[2].site = "generator"
        /\ Contains(frame[r].calls[2].prompt, frame[r].previousCode.s)
        /\ EmbedsPlan(frame[r].calls[2].prompt, r)

C9_ModifyPromptHasPrevious_part001 ==
  impl = "part_001" => C9_ModifyPromptHasPrevious

C9_Witness_part001 ==
  \E r \in Requests :
     /\ impl = "part_001"
     /\ frame[r].previousCode = String(PreviousCodeText)
     /\ Len(frame[r].calls) >= 2
     /\ PlannerText(r) = TextModify

(***************************************************************************)
(* C10: for a request whose previousCode is null or absent and whose plan  *)
(* has type `create`, the generation prompt has a previous-UI section that *)
(* holds the none marker and nothing else.                                 *)
(***************************************************************************)
\* what follows the last "PREVIOUS UI:" header, without the line breaks
\* around it; <<>> when the prompt has no such header
PreviousUISection(prompt) ==
  IF \E k \in 1..Len(prompt) : prompt[k] = PreviousUIHeader
  THEN LET last == CHOOSE k \in 1..Len(prompt) :
                     /\ prompt[k] = PreviousUIHeader
                     /\ \A j \in (k + 1)..Len(prompt) :
                           prompt[j] # PreviousUIHeader
       IN  Trim(SubSeq(prompt, last + 1, Len(prompt)))
  ELSE <<>>

C10_CreatePromptHasNone ==
  \A r \in Requests :
     /\ frame[r].pc # "idle"
     /\ frame[r].previousCode \in {Null, Undefined}
     /\ PlanParseable(r) /\ PlanType(r) = Str(<<"create">>)
     /\ Len(frame[r].calls) >= 2
     => /\ frame[r].calls[2].site = "generator"
        /\ PreviousUISection(frame[r].calls[2].prompt) = <<NoneMarker>>

C10_CreatePromptHasNone_part001 ==
  impl = "part_001" => C10_CreatePromptHasNone

C10_Witness_part001 ==
  \E r1, r2 \in Requests :
     /\ impl = "part_001"
     /\ frame[r1].previousCode = Null /\ frame[r2].previousCode = Undefined
     /\ frame[r1].pc = "explainer" /\ frame[r2].pc = "explainer"
     /\ PlannerText(r1) = TextCreate /\ PlannerText(r2) = TextCreate

(***************************************************************************)
(* C11: requests are isolated under any interleaving: what a handler run   *)
(* has done and answered depends only on its own body and on the model     *)
(* outputs returned to its own calls; a failure of one request never       *)
(* changes the status or body of another.                                  *)
(***************************************************************************)
\* the handler resumed with one settled call, no other request existing
ResumeAlone(i, f, reply) ==
  IF f.pc \notin {"planner", "generator", "explainer"} THEN f
  ELSE IF ~reply.ok THEN Catch(Settle(f, reply), "Error")
  ELSE IF f.pc = "planner" THEN AfterPlanner(i, Settle(f, reply), reply.text)
  ELSE IF f.pc = "generator" THEN AfterGenerator(i, Settle(f, reply), reply.text)
  ELSE AfterExplainer(i, Settle(f, reply), reply.text)

RECURSIVE ResumeAll(_, _, _)
ResumeAll(i, f, replies) ==
  IF replies = <<>> THEN f
  ELSE ResumeAll(i, ResumeAlone(i, f, Head(replies)), Tail(replies))

\* the frame of a request with this body and these replies, handled by a
\* server that handles nothing else
RunAlone(i, body, replies) ==
  ResumeAll(i, Start(i, IdleFrame, body.message, body.previousCode), replies)

Thrown == [ok |-> FALSE, text |-> <<>>]
RepliesOf(texts) == {[ok |-> TRUE, text |-> t] : t \in texts} \cup {Thrown}

\* the replies a request can have had, stage by stage
ReplySeqs ==
  {<<>>}
  \cup {<<p>> : p \in RepliesOf(PlannerTexts)}
  \cup {<<p, g>> : p \in RepliesOf(PlannerTexts), g \in RepliesOf(GeneratorTexts)}
  \cup {<<p, g, e>> : p \in RepliesOf(PlannerTexts),
                      g \in RepliesOf(GeneratorTexts),
                      e \in RepliesOf(ExplainerTexts)}

Alone ==
  [i \in Impls |-> [b \in Bodies |-> [rs \in ReplySeqs |-> RunAlone(i, b, rs)]]]

BodyOf(r) ==
  [message |-> frame[r].message, previousCode |-> frame[r].previousCode]

C11_Isolation ==
  \A r \in Requests :
     frame[r].pc # "idle"
     => /\ BodyOf(r) \in Bodies /\ frame[r].replies \in ReplySeqs
        /\ frame[r] = Alone[impl][BodyOf(r)][frame[r].replies]

\* one request failed while another, with the same body, went on and was
\* answered with 200
C11_Witness ==
  \E r1, r2 \in Requests :
     /\ r1 # r2 /\ BodyOf(r1) = BodyOf(r2)
     /\ frame[r1].err # "none" /\ Status(r1) = 500
     /\ Status(r2) = 200

(***************************************************************************)
(* C12: prompt rendering is deterministic: for each of the three           *)
(* templates, two renderings with identical inputs (message and            *)
(* previousCode for planning; plan and previousCode for generation; plan   *)
(* for explanation) are the same text, whatever the process has handled    *)
(* before.                                                                 *)
(***************************************************************************)
\* the plan the handler holds: `plan` of part_001, `planText` of index.js
PlanInput(r) ==
  IF impl = "index.js" THEN Str(frame[r].planText) ELSE frame[r].plan

Prompt(r, k) == frame[r].calls[k].prompt

C12_PromptDeterminism ==
  \A r1, r2 \in Requests :
     /\ Len(frame[r1].calls) >= 1 /\ Len(frame[r2].calls) >= 1
        /\ frame[r1].message = frame[r2].message
        /\ frame[r1].previousCode = frame[r2].previousCode
        => Prompt(r1, 1) = Prompt(r2, 1)
     /\ Len(frame[r1].calls) >= 2 /\ Len(frame[r2].calls) >= 2
        /\ PlanInput(r1) = PlanInput(r2)
        /\ frame[r1].previousCode = frame[r2].previousCode
        => Prompt(r1, 2) = Prompt(r2, 2)
     /\ Len(frame[r1].calls) >= 3 /\ Len(frame[r2].calls) >= 3
        /\ PlanInput(r1) = PlanInput(r2)
        => Prompt(r1, 3) = Prompt(r2, 3)

\* two requests with equal inputs have rendered all three prompts, one of
\* them already answered
C12_Witness ==
  \E r1, r2 \in Requests :
     /\ r1 # r2
     /\ frame[r1].pc = "done" /\ Len(frame[r1].calls) = 3
     /\ frame[r2].pc = "explainer"
     /\ frame[r1].message = frame[r2].message
     /\ frame[r1].previousCode = frame[r2].previousCode
     /\ PlanInput(r1) = PlanInput(r2)

(***************************************************************************)
(* C13: every request that reaches the handler gets exactly one response:  *)
(* never two (400, 200 and 500 exclude each other, and a response once     *)
(* sent is not changed), and, when every model call eventually returns or  *)
(* throws, a response is eventually sent.  There is no timeout: a waiting  *)
(* handler responds only in the step in which its model call settles.      *)
(***************************************************************************)
Waiting == {"planner", "generator", "explainer"}

AtMostOneResponse ==
  \A r \in Requests :
     /\ frame[r].res.sent <= 1
     /\ frame[r].res.sent = 1 <=> frame[r].pc = "done"
     /\ frame[r].res.sent = 1 => Status(r) \in {400, 200, 500}
     /\ frame[r].res.sent = 0 => frame[r].res = NoResponse

ResponseIsFinal ==
  \A r \in Requests :
     /\ frame[r].res.sent = 1 => frame'[r].res = frame[r].res
     /\ frame[r].pc \in Waiting /\ frame'[r].res.sent = 1
        => Len(frame'[r].replies) = Len(frame[r].replies) + 1

C13_ExactlyOneResponse ==
  /\ []AtMostOneResponse
  /\ [][ResponseIsFinal]_vars
  /\ \A r \in Requests : (frame[r].pc # "idle") ~> (frame[r].pc = "done")

\* one request was answered with 200 and another with 500, each once
C13_Witness ==
  \E r1, r2 \in Requests :
     /\ Status(r1) = 200 /\ frame[r1].res.sent = 1
     /\ Status(r2) = 500 /\ frame[r2].res.sent = 1

====
